---- MODULE Spec2Model ----
(***************************************************************************)
(* Model of migrate-claude-project-paths.py: the path encoder, the move    *)
(* ledger reader, the candidate resolver, the directory merger, the record *)
(* rewriter and the migration run that drives them.                        *)
(*                                                                         *)
(* Strings (paths, file names) are sequences of one-character strings, so  *)
(* that encoding, prefix substitution, stem/suffix splitting and sorting   *)
(* are computed character by character as the code computes them.          *)
(***************************************************************************)
EXTENDS Integers, Sequences, FiniteSets, TLC

VARIABLES
    call,           \* a call of one function in isolation: [fn, args, ret, step]
    argv,           \* the command line: apply, archive_project_symlinks, ledger files, pairs
    host,           \* the host file system: path -> "dir" or "file", for the paths that exist
    projects,       \* ~/.claude/projects: name -> node
    migration,      \* the run directory: whether it exists, its ledger copies, backups, log
    pc,             \* where main is
    raised,         \* the exception that ended main ("none": it returned 0)
    candidates,     \* main's candidates
    ci,             \* index of the candidate being processed
    todo,           \* merge_project_dirs: the entries of old_dir still to move
    moved_files,    \* merge_project_dirs: moves
    jsonl_files,    \* main: the record files still to rewrite
    out_lines,      \* rewrite_jsonl_cwds: the lines about to be written
    changed_files,  \* main: changed_files
    stdout,         \* the counts printed so far in this run
    start,          \* projects as it was when the run started
    before,         \* projects as it was when the merge of the current candidate began
    past            \* the runs that ended before this one

(***************************************************************************)
(* Characters and strings                                                  *)
(***************************************************************************)

\* Code point of a character (Python compares and classifies by code point).
Ord(c) ==
    CASE c = " " -> 32
      [] c = "-" -> 45
      [] c = "." -> 46
      [] c = "/" -> 47
      [] c = "0" -> 48
      [] c = "1" -> 49
      [] c = "2" -> 50
      [] c = "3" -> 51
      [] c = "4" -> 52
      [] c = "5" -> 53
      [] c = "6" -> 54
      [] c = "7" -> 55
      [] c = "8" -> 56
      [] c = "9" -> 57
      [] c = "S" -> 83
      [] c = "Z" -> 90
      [] c = "_" -> 95
      [] c = "a" -> 97
      [] c = "b" -> 98
      [] c = "c" -> 99
      [] c = "d" -> 100
      [] c = "e" -> 101
      [] c = "f" -> 102
      [] c = "h" -> 104
      [] c = "i" -> 105
      [] c = "j" -> 106
      [] c = "l" -> 108
      [] c = "m" -> 109
      [] c = "n" -> 110
      [] c = "o" -> 111
      [] c = "p" -> 112
      [] c = "q" -> 113
      [] c = "r" -> 114
      [] c = "s" -> 115
      [] c = "t" -> 116
      [] c = "x" -> 120
      [] c = "y" -> 121

\* All strings over alphabet A of length at most n.
StringsUpTo(A, n) == UNION {[1..k -> A] : k \in 0..n}

StartsWith(s, p) == Len(p) <= Len(s) /\ SubSeq(s, 1, Len(p)) = p

EndsWith(s, p) == Len(p) <= Len(s) /\ SubSeq(s, Len(s) - Len(p) + 1, Len(s)) = p

\* Python's str ordering: s < t, by code point, a proper prefix first.
RECURSIVE StrLess(_, _)
StrLess(s, t) ==
    IF t = <<>> THEN FALSE
    ELSE IF s = <<>> THEN TRUE
    ELSE IF Ord(Head(s)) # Ord(Head(t)) THEN Ord(Head(s)) < Ord(Head(t))
    ELSE StrLess(Tail(s), Tail(t))

\* sorted(S): the strings of the set S in increasing order.
RECURSIVE SortedSeq(_)
SortedSeq(S) ==
    IF S = {} THEN <<>>
    ELSE LET least == CHOOSE s \in S : \A t \in S \ {s} : StrLess(s, t)
         IN  <<least>> \o SortedSeq(S \ {least})

\* str.strip(): leading and trailing whitespace removed.
RECURSIVE Strip(_)
Strip(s) ==
    IF s # <<>> /\ s[1] = " " THEN Strip(Tail(s))
    ELSE IF s # <<>> /\ s[Len(s)] = " " THEN Strip(SubSeq(s, 1, Len(s) - 1))
    ELSE s

\* str.rstrip("/")
RECURSIVE RStripSlash(_)
RStripSlash(s) ==
    IF s # <<>> /\ s[Len(s)] = "/" THEN RStripSlash(SubSeq(s, 1, Len(s) - 1))
    ELSE s

(***************************************************************************)
(* Path Encoder                                                            *)
(***************************************************************************)

\* The class [a-zA-Z0-9] of the regular expression.
IsAlnum(c) ==
    \/ Ord(c) \in 48..57
    \/ Ord(c) \in 65..90
    \/ Ord(c) \in 97..122

euBlank(value) == [i \in 1..Len(value) |-> IF IsAlnum(value[i]) THEN value[i] ELSE "_"]

\* eu: re.sub(r"[^a-zA-Z0-9]", "-", value)
eu(value) == [i \in 1..Len(value) |-> IF IsAlnum(value[i]) THEN value[i] ELSE "-"]

(***************************************************************************)
(* Record Rewriter: the prefix substitution                                *)
(***************************************************************************)

apply_prefix_mapping_unbounded(value, src, dst) ==
    IF value = src THEN dst
    ELSE IF StartsWith(value, src)
         THEN dst \o SubSeq(value, Len(src) + 1, Len(value))
         ELSE value

apply_prefix_mapping(value, src, dst) ==
    IF value = src THEN dst
    ELSE LET prefix == src \o <<"/">>
         IN  IF StartsWith(value, prefix)
             THEN dst \o SubSeq(value, Len(src) + 1, Len(value))
             ELSE value

(***************************************************************************)
(* Move Ledger Reader                                                      *)
(***************************************************************************)

\* A ledger file that is absent, and one that holds the rows given.
NoFile == [exists |-> FALSE, rows |-> <<>>]
FileOf(rows) == [exists |-> TRUE, rows |-> rows]

\* Move(src, dst, kind, reason); the reason takes no part in the migration.
Move(src, dst, kind) == [src |-> src, dst |-> dst, kind |-> kind]

\* read_moves_csv: fields stripped, rows without src, dst or kind skipped,
\* trailing separators of src and dst removed.
RECURSIVE read_moves_csv(_)
read_moves_csv(rows) ==
    IF rows = <<>> THEN <<>>
    ELSE LET row  == Head(rows)
             src  == Strip(row.src)
             dst  == Strip(row.dst)
             kind == Strip(row.kind)
         IN  IF src = <<>> \/ dst = <<>> \/ kind = <<>>
             THEN read_moves_csv(Tail(rows))
             ELSE <<Move(RStripSlash(src), RStripSlash(dst), kind)>>
                      \o read_moves_csv(Tail(rows))

\* dict.update: the entries of upd replace and extend those of base.
Update(base, upd) ==
    [k \in DOMAIN base \cup DOMAIN upd |-> IF k \in DOMAIN upd THEN upd[k] ELSE base[k]]

EmptyMapping == [k \in {} |-> <<>>]

KindDir == <<"d", "i", "r">>
KindFile == <<"f", "i", "l", "e">>

\* build_dir_mapping: the rows of kind "dir", a later row replacing an earlier
\* one with the same src.
RECURSIVE build_dir_mapping(_)
build_dir_mapping(moves) ==
    IF moves = <<>> THEN EmptyMapping
    ELSE LET m     == moves[Len(moves)]
             front == build_dir_mapping(SubSeq(moves, 1, Len(moves) - 1))
         IN  IF m.kind # KindDir THEN front
             ELSE Update(front, [k \in {m.src} |-> m.dst])

\* main: the --pair arguments as moves of kind "dir".
PairMoves(pairs) ==
    [i \in 1..Len(pairs) |-> Move(RStripSlash(pairs[i][1]), RStripSlash(pairs[i][2]), KindDir)]

LoadMappingBaseLast(movesFile, corrFile, pairs) ==
    LET moves  == IF movesFile.exists THEN read_moves_csv(movesFile.rows) ELSE <<>>
        corr   == IF corrFile.exists THEN build_dir_mapping(read_moves_csv(corrFile.rows))
                  ELSE EmptyMapping
    IN  Update(Update(build_dir_mapping(PairMoves(pairs)), corr), build_dir_mapping(moves))

\* main: the mapping of moves.csv, updated by moves_corrections.csv when it
\* exists, updated by the --pair arguments.
LoadMapping(movesFile, corrFile, pairs) ==
    LET moves   == IF movesFile.exists THEN read_moves_csv(movesFile.rows) ELSE <<>>
        mapping == build_dir_mapping(moves)
        withCorr == IF corrFile.exists
                    THEN Update(mapping, build_dir_mapping(read_moves_csv(corrFile.rows)))
                    ELSE mapping
    IN  IF pairs # <<>>
        THEN Update(withCorr, build_dir_mapping(PairMoves(pairs)))
        ELSE withCorr

(***************************************************************************)
(* The archive: ~/.claude/projects                                         *)
(*                                                                         *)
(* projects maps the name of each entry directly under projects_dir to a   *)
(* node; a directory node maps the names of its entries to nodes. A record *)
(* file is a node with lines. The id of a node names the place it had when *)
(* the model started, so that an entry can be followed through its moves.  *)
(***************************************************************************)

NoEntries == [n \in {} |-> <<>>]

FileNode(id, lines) == [kind |-> "file", id |-> id, lines |-> lines, entries |-> NoEntries]
DirNode(id, entries) == [kind |-> "dir", id |-> id, lines |-> <<>>, entries |-> entries]
LinkNode(id) == [kind |-> "symlink", id |-> id, lines |-> <<>>, entries |-> NoEntries]

\* A directory listing with name bound to node, and with name removed.
Put(entries, name, node) == (name :> node) @@ entries
Remove(entries, name) == [n \in DOMAIN entries \ {name} |-> entries[n]]

\* Path.exists() and Path.is_dir() of projects_dir / name.
Exists(tree, name) == name \in DOMAIN tree
IsDir(tree, name) == name \in DOMAIN tree /\ tree[name].kind = "dir"

\* safe_mkdir(projects_dir / name): mkdir(parents=True, exist_ok=True). It
\* raises FileExistsError when the name is taken by something that is not a
\* directory (MkdirRaises); otherwise the directory exists afterwards.
MkdirRaises(tree, name) == Exists(tree, name) /\ ~IsDir(tree, name)
safe_mkdir(tree, name) ==
    IF Exists(tree, name) THEN tree ELSE Put(tree, name, DirNode(<<>>, NoEntries))

\* entry.name.startswith(".")
IsHidden(name) == name # <<>> /\ name[1] = "."

\* Index of the last "." of a name, 0 when it has none (str.rfind + 1).
RECURSIVE LastDot(_)
LastDot(name) ==
    IF name = <<>> THEN 0
    ELSE IF name[Len(name)] = "." THEN Len(name)
    ELSE LastDot(SubSeq(name, 1, Len(name) - 1))

\* PurePath.suffix and PurePath.stem: the name is split at its last dot
\* unless that dot is its first or its last character.
HasSuffix(name) == 1 < LastDot(name) /\ LastDot(name) < Len(name)
Suffix(name) == IF HasSuffix(name) THEN SubSeq(name, LastDot(name), Len(name)) ELSE <<>>
Stem(name) == IF HasSuffix(name) THEN SubSeq(name, 1, LastDot(name) - 1) ELSE name

Digit(n) == <<"0", "1", "2", "3", "4", "5", "6", "7", "8", "9">>[n + 1]

\* f"{i:04d}" for 0 <= i <= 9999
Pad4(i) ==
    <<Digit(i \div 1000), Digit((i \div 100) % 10), Digit((i \div 10) % 10), Digit(i % 10)>>

\* f"{stem}.conflict{i:04d}{suffix}"
ConflictName(name, i) ==
    Stem(name) \o <<".", "c", "o", "n", "f", "l", "i", "c", "t">> \o Pad4(i) \o Suffix(name)

\* range(1, 10_000) stops before ConflictCeiling.
ConflictCeiling == 10000

\* The name move_file_no_overwrite cannot give: it raises RuntimeError.
TooManyConflicts == <<>>

\* The loop over range(i, 10_000): the conflict name of the first counter
\* whose name is not taken, or none when the loop runs out.
FirstFreeConflict(taken, name, i) ==
    IF \E k \in i..(ConflictCeiling - 1) : ConflictName(name, k) \notin taken
    THEN LET first == CHOOSE k \in i..(ConflictCeiling - 1) :
                          /\ ConflictName(name, k) \notin taken
                          /\ \A m \in i..(k - 1) : ConflictName(name, m) \in taken
         IN  ConflictName(name, first)
    ELSE TooManyConflicts

FinalNameFromZero(taken, name) ==
    IF name \notin taken THEN name ELSE FirstFreeConflict(taken, name, 0)

\* move_file_no_overwrite: the name the entry gets in the directory whose
\* names are taken: its own when free, else the first free conflict name.
FinalName(taken, name) ==
    IF name \notin taken THEN name ELSE FirstFreeConflict(taken, name, 1)

MoveEntryCopies(tree, old_dir, new_dir, name, final) ==
    LET made == safe_mkdir(tree, new_dir)
    IN  [made EXCEPT ![new_dir].entries = Put(@, final, made[old_dir].entries[name])]

\* merge_project_dirs, one entry in apply mode: safe_mkdir(new_dir), then
\* src.rename(final_dst). With old_dir = new_dir the rename is within the
\* directory.
MoveEntryInto(tree, old_dir, new_dir, name, final) ==
    LET made  == safe_mkdir(tree, new_dir)
        node  == made[old_dir].entries[name]
        taken == [made EXCEPT ![old_dir].entries = Remove(@, name)]
    IN  [taken EXCEPT ![new_dir].entries = Put(@, final, node)]

\* sorted(old_dir.iterdir(), key=name) without the hidden entries.
MergeList(tree, old_dir) ==
    SortedSeq({n \in DOMAIN tree[old_dir].entries : ~IsHidden(n)})

\* sorted(new_dir.glob("*.jsonl"), key=name): nothing when new_dir is no
\* directory; pathlib's "*" also matches names that start with a dot.
DotJsonl == <<".", "j", "s", "o", "n", "l">>
GlobJsonl(tree, new_dir) ==
    IF IsDir(tree, new_dir)
    THEN SortedSeq({n \in DOMAIN tree[new_dir].entries : EndsWith(n, DotJsonl)})
    ELSE <<>>

(***************************************************************************)
(* Record Rewriter                                                         *)
(*                                                                         *)
(* A line of a record file, as str.splitlines(keepends=True) and           *)
(* json.loads see it:                                                      *)
(*   kind  "obj"    a JSON object on one physical line                     *)
(*         "split"  a JSON object one of whose strings holds a raw line    *)
(*                  separator (U+2028, U+2029, U+0085): valid JSON, which  *)
(*                  splitlines cuts in two pieces that do not parse        *)
(*         "nonobj" valid JSON that is no object (array, number, null)     *)
(*         "bad"    text that does not parse                               *)
(*         "blank"  whitespace only                                        *)
(*   cwd   the value of the "cwd" key (an object's; strings only)          *)
(*   rest  the other keys and values                                       *)
(*   canon whether the text is what json.dumps would write                 *)
(*   eol   whether the line ends with a line terminator                    *)
(*   disk  what the bytes of the line in the file are: "lf" for UTF-8 text *)
(*         ended, if at all, by "\n"; "crlf" for UTF-8 text ended by       *)
(*         "\r\n"; "invalid" for bytes that are no UTF-8; "replaced" for   *)
(*         text that holds U+FFFD where such bytes were                    *)
(***************************************************************************)

Line(kind, cwd, rest, canon, eol) ==
    [kind |-> kind, cwd |-> cwd, rest |-> rest, canon |-> canon, eol |-> eol, disk |-> "lf"]

\* The same line with other bytes in the file.
OnDisk(line, disk) == [line EXCEPT !.disk = disk]

\* Path.read_text(encoding="utf-8"), with errors="replace" after a
\* UnicodeDecodeError: the file is opened in text mode, which translates
\* "\r\n" to "\n" and, the second time, puts U+FFFD for the bytes that do
\* not decode. Path.write_text writes the text as UTF-8, "\n" as it is.
read_text(lines) ==
    [i \in 1..Len(lines) |->
        [lines[i] EXCEPT !.disk = CASE @ = "crlf" -> "lf"
                                    [] @ = "invalid" -> "replaced"
                                    [] OTHER -> @]]

\* shutil.copy2(jsonl_path, backup_path): the copy holds the lines of the
\* file; of records which file it is a copy of.
Backup(node) == [of |-> node.id, lines |-> node.lines]

BackupAlways(backups, rel, node) == Put(backups, rel, Backup(node))

\* rewrite_jsonl_cwds, lines 176-180: the file is copied to backup_path
\* unless backup_path exists.
BackupOnce(backups, rel, node) ==
    IF rel \in DOMAIN backups THEN backups ELSE Put(backups, rel, Backup(node))

\* obj.get("cwd") raises AttributeError on what is no dict.
LineRaises(line) == line.kind = "nonobj"

\* rewrite_jsonl_cwds, one line of the loop: the line as appended to out_lines.
RewriteLine(line, src, dst) ==
    IF line.kind = "obj" /\ apply_prefix_mapping(line.cwd, src, dst) # line.cwd
    THEN [line EXCEPT !.cwd = apply_prefix_mapping(line.cwd, src, dst), !.canon = TRUE]
    ELSE line

\* rewrite_jsonl_cwds up to its decision: whether the loop raises, whether
\* any line changed, and the lines to write.
Rewrite(lines, src, dst) ==
    LET original == read_text(lines)
        out == [i \in 1..Len(lines) |-> RewriteLine(original[i], src, dst)]
    IN  [raises  |-> \E i \in 1..Len(lines) : LineRaises(lines[i]),
         changed |-> \E i \in 1..Len(lines) :
                       /\ lines[i].kind = "obj"
                       /\ apply_prefix_mapping(lines[i].cwd, src, dst) # lines[i].cwd,
         out     |-> out]

(***************************************************************************)
(* Candidate Resolver                                                      *)
(***************************************************************************)

Candidate(src, dst) == [src |-> src, dst |-> dst, old_dir |-> eu(src), new_dir |-> eu(dst)]

\* main: the mappings, in increasing order of src, whose old_dir exists and
\* is a directory and whose dst exists on the host.
RECURSIVE FilterCandidates(_, _, _, _)
FilterCandidates(srcs, mapping, tree, hostfs) ==
    IF srcs = <<>> THEN <<>>
    ELSE LET src  == Head(srcs)
             dst  == mapping[src]
             rest == FilterCandidates(Tail(srcs), mapping, tree, hostfs)
         IN  IF ~Exists(tree, eu(src)) \/ ~IsDir(tree, eu(src)) THEN rest
             ELSE IF dst \notin DOMAIN hostfs THEN rest
             ELSE <<Candidate(src, dst)>> \o rest

ResolveCandidates(mapping, tree, hostfs) ==
    FilterCandidates(SortedSeq(DOMAIN mapping), mapping, tree, hostfs)

(***************************************************************************)
(* Functions called in isolation                                           *)
(***************************************************************************)

NoCall == [fn |-> "none", args |-> <<>>, ret |-> <<>>, step |-> 0]

vars == <<call, argv, host, projects, migration, pc, raised, candidates, ci, todo,
          moved_files, jsonl_files, out_lines, changed_files, stdout, start, before, past>>

NoMigration == [exists |-> FALSE, copies |-> {}, backups |-> NoEntries, log |-> <<>>]

NoArgv == [apply |-> FALSE, archive_project_symlinks |-> FALSE,
           moves |-> NoFile, corrections |-> NoFile, pair |-> <<>>]

\* The locals of main before it runs.
FreshRun ==
    /\ migration = NoMigration
    /\ raised = "none"
    /\ candidates = <<>>
    /\ ci = 0
    /\ todo = <<>>
    /\ moved_files = <<>>
    /\ jsonl_files = <<>>
    /\ out_lines = <<>>
    /\ changed_files = 0
    /\ stdout = <<>>
    /\ before = NoEntries

\* main is not running: a function is called in isolation.
MainIdle ==
    /\ argv = NoArgv
    /\ host = NoEntries
    /\ projects = NoEntries
    /\ start = NoEntries
    /\ past = <<>>
    /\ pc = "idle"
    /\ FreshRun

mainVars == <<argv, host, projects, migration, pc, raised, candidates, ci, todo,
              moved_files, jsonl_files, out_lines, changed_files, stdout, start, before,
              past>>

\* ---- eu on two strings, then on its own output -------------------------

MaxEncLen == 2
EncAlphabet == {"a", "Z", "7", "-", "/", "_"}

InitEncode ==
    /\ \E s \in StringsUpTo(EncAlphabet, MaxEncLen), t \in StringsUpTo(EncAlphabet, MaxEncLen) :
          call = [fn |-> "eu", args |-> <<s, t>>, ret |-> <<>>, step |-> 0]
    /\ MainIdle

Encode ==
    /\ call.fn = "eu" /\ call.step = 0
    /\ call' = [call EXCEPT !.ret = <<eu(call.args[1]), eu(call.args[2])>>, !.step = 1]
    /\ UNCHANGED mainVars

EncodeAgain ==
    /\ call.fn = "eu" /\ call.step = 1
    /\ call' = [call EXCEPT !.ret = call.ret \o <<eu(call.ret[1]), eu(call.ret[2])>>, !.step = 2]
    /\ UNCHANGED mainVars

NextEncode == Encode \/ EncodeAgain

SpecEncode == InitEncode /\ [][NextEncode]_vars

\* ---- apply_prefix_mapping ---------------------------------------------

MaxCwdLen == 3
MaxPathLen == 2
PrefixAlphabet == {"/", "a", "b"}

InitPrefix ==
    /\ \E value \in StringsUpTo(PrefixAlphabet, MaxCwdLen),
          src \in StringsUpTo(PrefixAlphabet, MaxPathLen),
          dst \in StringsUpTo(PrefixAlphabet, MaxPathLen) :
          call = [fn |-> "apply_prefix_mapping", args |-> <<value, src, dst>>,
                  ret |-> <<>>, step |-> 0]
    /\ MainIdle

ApplyPrefix ==
    /\ call.fn = "apply_prefix_mapping" /\ call.step = 0
    /\ call' = [call EXCEPT
                  !.ret = apply_prefix_mapping(call.args[1], call.args[2], call.args[3]),
                  !.step = 1]
    /\ UNCHANGED mainVars

NextPrefix == ApplyPrefix

SpecPrefix == InitPrefix /\ [][NextPrefix]_vars

\* ---- the mapping construction of main ----------------------------------

MaxRows == 2

\* Rows of a ledger file as the csv reader hands them over.
LedgerRows ==
    { [src |-> <<"/", "a">>,      dst |-> <<"/", "p">>,      kind |-> KindDir],
      [src |-> <<"/", "a", "/">>, dst |-> <<"/", "q">>,      kind |-> KindDir],
      [src |-> <<"/", "a">>,      dst |-> <<"/", "r">>,      kind |-> KindFile],
      [src |-> <<"/", "b", " ">>, dst |-> <<"/", "p", "/">>, kind |-> KindDir] }

PairArgs == { << <<"/", "a", "/">>, <<"/", "r">> >>, << <<"/", "b">>, <<"/", "q">> >> }

LedgerFiles == {NoFile} \cup {FileOf(rows) : rows \in StringsUpTo(LedgerRows, MaxRows)}

InitLedger ==
    /\ \E movesFile \in LedgerFiles, corrFile \in LedgerFiles,
          pairs \in StringsUpTo(PairArgs, MaxRows) :
          call = [fn |-> "load_mapping", args |-> <<movesFile, corrFile, pairs>>,
                  ret |-> <<>>, step |-> 0]
    /\ MainIdle

BuildMapping ==
    /\ call.fn = "load_mapping" /\ call.step = 0
    /\ call' = [call EXCEPT
                  !.ret = LoadMapping(call.args[1], call.args[2], call.args[3]),
                  !.step = 1]
    /\ UNCHANGED mainVars

NextLedger == BuildMapping

SpecLedger == InitLedger /\ [][NextLedger]_vars

\* The candidate resolution of main in isolation: a mapping over the paths
\* /a, /a/b and /a-b, an archive in which each encoded name is absent, a
\* file or a directory, a host on which each path is absent, a file or a
\* directory.
ResolvePaths == {<<"/", "a">>, <<"/", "a", "/", "b">>, <<"/", "a", "-", "b">>}
ResolveMappings ==
    UNION {[srcs -> ResolvePaths] : srcs \in SUBSET ResolvePaths}
ResolveTrees ==
    UNION {[names -> {FileNode(<<>>, <<>>), DirNode(<<>>, NoEntries)}] :
              names \in SUBSET {eu(p) : p \in ResolvePaths}}
ResolveHosts ==
    UNION {[paths -> {"file", "dir"}] : paths \in SUBSET ResolvePaths}

InitResolve ==
    /\ \E mapping \in ResolveMappings, tree \in ResolveTrees, hostfs \in ResolveHosts :
          call = [fn |-> "candidates", args |-> <<mapping, tree, hostfs>>,
                  ret |-> <<>>, step |-> 0]
    /\ MainIdle

Resolve ==
    /\ call.fn = "candidates" /\ call.step = 0
    /\ call' = [call EXCEPT
                  !.ret = ResolveCandidates(call.args[1], call.args[2], call.args[3]),
                  !.step = 1]
    /\ UNCHANGED mainVars

NextResolve == Resolve

SpecResolve == InitResolve /\ [][NextResolve]_vars

\* move_file_no_overwrite in isolation: the entry name of the directory "s"
\* is moved to the directory "d", in which the target name is taken or not,
\* the conflict names of the counters 1..upto are taken but for the counter
\* hole, and another name is there or not.
MaxTakenPrefix == 2
MoveSrcDir == <<"s">>
MoveDstDir == <<"d">>
MoveNames ==
    {<<"x", ".", "j", "s", "o", "n", "l">>, <<"x">>, <<"a", ".", "b", ".", "c">>, <<".", "h">>}
MoveOtherName == <<"o">>
MoveTaken ==
    [target : BOOLEAN,
     upto   : (0..MaxTakenPrefix) \cup {ConflictCeiling - 2, ConflictCeiling - 1},
     hole   : 0..MaxTakenPrefix,
     other  : BOOLEAN]
TakenNames(name, t) ==
    {n \in {name} : t.target}
    \cup {ConflictName(name, i) : i \in (1..t.upto) \ {t.hole}}
    \cup {n \in {MoveOtherName} : t.other}
MoveTree(name, t) ==
    LET taken == TakenNames(name, t)
    IN  [dir \in {MoveSrcDir, MoveDstDir} |->
            IF dir = MoveSrcDir
            THEN DirNode(<<dir>>, [n \in {name} |-> FileNode(<<dir, n>>, <<>>)])
            ELSE DirNode(<<dir>>, [n \in taken |-> FileNode(<<dir, n>>, <<>>)])]

InitMove ==
    /\ \E name \in MoveNames, t \in MoveTaken :
          call = [fn |-> "move_file_no_overwrite", args |-> <<name, t>>,
                  ret |-> <<>>, step |-> 0]
    /\ MainIdle

\* move_file_no_overwrite(s / name, d / name): it raises RuntimeError or
\* renames the entry; the result records the name given, what is left in
\* "s", and whether "d" is as it was ("same"), as it was with the moved
\* entry added under the name given ("grown"), or neither ("damaged").
MoveCall ==
    /\ call.fn = "move_file_no_overwrite" /\ call.step = 0
    /\ \E tree \in {MoveTree(call.args[1], call.args[2])} :
       \E final \in {FinalName(DOMAIN tree[MoveDstDir].entries, call.args[1])} :
       \E after \in {IF final = TooManyConflicts THEN tree
                      ELSE MoveEntryInto(tree, MoveSrcDir, MoveDstDir, call.args[1], final)} :
          LET was   == tree[MoveDstDir].entries
              now   == after[MoveDstDir].entries
              entry == tree[MoveSrcDir].entries[call.args[1]]
          IN  call' = [call EXCEPT
                         !.step = 1,
                         !.ret = [raised   |-> IF final = TooManyConflicts THEN "RuntimeError"
                                               ELSE "none",
                                  final    |-> final,
                                  src_left |-> DOMAIN after[MoveSrcDir].entries,
                                  dst      |-> IF now = was THEN "same"
                                               ELSE IF /\ final \notin DOMAIN was
                                                       /\ now = (final :> entry) @@ was
                                               THEN "grown"
                                               ELSE "damaged"]]
    /\ UNCHANGED mainVars

NextMove == MoveCall

SpecMove == InitMove /\ [][NextMove]_vars

\* rewrite_jsonl_cwds in isolation: one record file is rewritten under a
\* first and then under a second (src, dst), with one backup root.
MaxFileLines == 2
MaxRewrites == 2
RewriteLinePool ==
    {Line("obj", p, 1, TRUE, TRUE) : p \in ResolvePaths}
    \cup {OnDisk(Line("obj", p, 1, TRUE, TRUE), "crlf") : p \in ResolvePaths}
    \cup {Line("nonobj", <<>>, 1, TRUE, TRUE), Line("bad", <<>>, 1, FALSE, TRUE),
          OnDisk(Line("bad", <<>>, 1, FALSE, TRUE), "invalid")}
RewriteFiles == UNION {[1..k -> RewriteLinePool] : k \in 1..MaxFileLines}
RewritePairs == ResolvePaths \X ResolvePaths
RewriteRel == <<<<"-", "a">>, <<"x", ".", "j", "s", "o", "n", "l">>>>

InitRewrite ==
    /\ \E lines \in RewriteFiles, pairs \in [1..MaxRewrites -> RewritePairs],
          dry_run \in BOOLEAN :
          call = [fn |-> "rewrite_jsonl_cwds", args |-> <<lines, pairs, dry_run>>,
                  ret |-> [file |-> FileNode(RewriteRel, lines), backups |-> NoEntries,
                           returned |-> <<>>],
                  step |-> 0]
    /\ MainIdle

\* One call of rewrite_jsonl_cwds(jsonl_path, src, dst, backup_root, dry_run):
\* it raises, or returns whether the file changes; when it does and this
\* is no dry run, the file is backed up and then written.
RewriteCall ==
    /\ call.fn = "rewrite_jsonl_cwds" /\ call.step < Len(call.args[2])
    /\ LET pair == call.args[2][call.step + 1]
           node == call.ret.file
           r    == Rewrite(node.lines, pair[1], pair[2])
       IN  call' = [call EXCEPT
                      !.step = @ + 1,
                      !.ret = IF r.raises
                              THEN [@ EXCEPT !.returned = Append(@, "AttributeError")]
                              ELSE IF ~r.changed
                              THEN [@ EXCEPT !.returned = Append(@, "False")]
                              ELSE IF call.args[3]
                              THEN [@ EXCEPT !.returned = Append(@, "True")]
                              ELSE [file |-> [node EXCEPT !.lines = r.out],
                                    backups |-> BackupOnce(@.backups, RewriteRel, node),
                                    returned |-> Append(@.returned, "True")]]
    /\ UNCHANGED mainVars

NextRewrite == RewriteCall

SpecRewrite == InitRewrite /\ [][NextRewrite]_vars

(***************************************************************************)
(* Migration Session: main                                                 *)
(***************************************************************************)

\* The candidate of the current iteration of main's loop.
Cand == candidates[ci]

\* An uncaught exception (SystemExit included) ends main with a non-zero
\* exit status; a return ends it with 0.
Raise(e) == pc' = "exit" /\ raised' = e
ExitStatus == IF raised = "none" THEN 0 ELSE 1

LoggedLast(obj) == IF argv.apply THEN [migration EXCEPT !.log = <<obj>>] ELSE migration

LoggedAlways(obj) == [migration EXCEPT !.log = Append(@, obj)]

\* log(obj): appended to actions.jsonl, in apply mode only.
Logged(obj) == IF argv.apply THEN [migration EXCEPT !.log = Append(@, obj)] ELSE migration

\* The name of the folder the symbolic links are archived in; the stamp of a
\* run is the number of the run.
ArchiveDirName == <<".", "S", Digit(Len(past) + 1)>>

\* What follows the body of the loop over the candidates: the next
\* candidate, or the symlink archiving when asked for, or the end of main.
AfterCandidate ==
    IF ci < Len(candidates)
    THEN /\ pc' = "candidate"
         /\ ci' = ci + 1
         /\ raised' = raised
    ELSE /\ pc' = IF argv.archive_project_symlinks THEN "symlinks" ELSE "exit"
         /\ ci' = ci
         /\ raised' = raised

\* main, lines 263-330: the mapping, the pre-flight check, the candidates,
\* the run directory (apply mode), the return when there is no candidate.
Start ==
    /\ pc = "main"
    /\ LET mapping == LoadMapping(argv.moves, argv.corrections, argv.pair)
           found   == ResolveCandidates(mapping, projects, host)
       IN  IF ~argv.moves.exists /\ argv.pair = <<>>
           THEN /\ Raise("SystemExit")
                /\ UNCHANGED <<candidates, ci, migration>>
           ELSE /\ candidates' = found
                /\ migration' =
                      IF argv.apply
                      THEN [exists  |-> TRUE,
                            copies  |-> {n \in {"moves.csv"} : argv.moves.exists}
                                        \cup {n \in {"moves_corrections.csv"} : argv.corrections.exists}
                                        \cup {n \in {"pairs.csv"} : argv.pair # <<>>},
                            backups |-> NoEntries,
                            log     |-> <<>>]
                      ELSE migration
                /\ raised' = raised
                /\ IF found = <<>>
                   THEN pc' = "exit" /\ ci' = ci
                   ELSE pc' = "candidate" /\ ci' = 1
    /\ UNCHANGED <<call, argv, host, projects, todo, moved_files, jsonl_files, out_lines,
                   changed_files, stdout, start, before, past>>

\* main, lines 332-342, and merge_project_dirs, line 208: safe_mkdir(new_dir)
\* in apply mode, then the sorted listing of old_dir, which raises when
\* old_dir is no directory any more.
BeginCandidate ==
    /\ pc = "candidate"
    /\ LET fails == argv.apply /\ MkdirRaises(projects, Cand.new_dir)
           made  == IF argv.apply /\ ~fails THEN safe_mkdir(projects, Cand.new_dir)
                    ELSE projects
       IN  /\ projects' = made
           /\ before' = projects
           /\ IF fails
              THEN Raise("FileExistsError") /\ UNCHANGED <<todo, moved_files>>
              ELSE IF ~IsDir(made, Cand.old_dir)
              THEN Raise("FileNotFoundError") /\ UNCHANGED <<todo, moved_files>>
              ELSE /\ todo' = MergeList(made, Cand.old_dir)
                   /\ moved_files' = <<>>
                   /\ pc' = "merge"
                   /\ raised' = raised
    /\ UNCHANGED <<call, argv, host, migration, candidates, ci, jsonl_files, out_lines,
                   changed_files, stdout, start, past>>

\* merge_project_dirs, lines 209-217: one entry of the listing. Dry-run
\* records the intended pair; apply moves the entry without overwriting.
MergeEntry ==
    /\ pc = "merge"
    /\ todo # <<>>
    /\ LET name  == Head(todo)
           made  == safe_mkdir(projects, Cand.new_dir)
           final == FinalName(DOMAIN made[Cand.new_dir].entries, name)
       IN  IF ~argv.apply
           THEN /\ moved_files' = Append(moved_files, <<name, name>>)
                /\ todo' = Tail(todo)
                /\ UNCHANGED <<projects, pc, raised>>
           ELSE IF final = TooManyConflicts
           THEN /\ Raise("RuntimeError")
                /\ projects' = made
                /\ UNCHANGED <<moved_files, todo>>
           ELSE /\ projects' = MoveEntryInto(projects, Cand.old_dir, Cand.new_dir, name, final)
                /\ moved_files' = Append(moved_files, <<name, final>>)
                /\ todo' = Tail(todo)
                /\ UNCHANGED <<pc, raised>>
    /\ UNCHANGED <<call, argv, host, migration, candidates, ci, jsonl_files, out_lines,
                   changed_files, stdout, start, before, past>>

\* main, lines 343-357: the count of moved entries is printed, the merge is
\* logged, and the record files of new_dir are listed.
MergeDone ==
    /\ pc = "merge"
    /\ todo = <<>>
    /\ stdout' = Append(stdout, [line |-> "Moved entries", src |-> Cand.src,
                                 n |-> Len(moved_files)])
    /\ migration' = Logged([type |-> "project_dir_merge", src |-> Cand.src, dst |-> Cand.dst,
                            old_dir |-> Cand.old_dir, new_dir |-> Cand.new_dir,
                            moved |-> moved_files])
    /\ jsonl_files' = GlobJsonl(projects, Cand.new_dir)
    /\ changed_files' = 0
    /\ pc' = "rewrite"
    /\ UNCHANGED <<call, argv, host, projects, raised, candidates, ci, todo, moved_files,
                   out_lines, start, before, past>>

\* rewrite_jsonl_cwds, lines 139-180, on the next record file: the lines are
\* read and mapped; an unchanged file is left alone; in dry-run a changed
\* file is only counted; in apply mode the file is copied to its backup path
\* unless a backup is there already.
RewriteScan ==
    /\ pc = "rewrite"
    /\ jsonl_files # <<>>
    /\ LET file  == Head(jsonl_files)
           node  == projects[Cand.new_dir].entries[file]
           lines == node.lines
           r     == Rewrite(lines, Cand.src, Cand.dst)
           rel   == <<Cand.new_dir, file>>
       IN  IF r.raises
           THEN /\ Raise("AttributeError")
                /\ UNCHANGED <<jsonl_files, changed_files, migration, out_lines>>
           ELSE IF ~r.changed
           THEN /\ jsonl_files' = Tail(jsonl_files)
                /\ UNCHANGED <<pc, raised, changed_files, migration, out_lines>>
           ELSE IF ~argv.apply
           THEN /\ jsonl_files' = Tail(jsonl_files)
                /\ changed_files' = changed_files + 1
                /\ UNCHANGED <<pc, raised, migration, out_lines>>
           ELSE /\ migration' = [migration EXCEPT !.backups = BackupOnce(@, rel, node)]
                /\ out_lines' = r.out
                /\ pc' = "write"
                /\ UNCHANGED <<raised, jsonl_files, changed_files>>
    /\ UNCHANGED <<call, argv, host, projects, candidates, ci, todo, moved_files, stdout,
                   start, before, past>>

\* rewrite_jsonl_cwds, line 182: the rewritten lines replace the file.
RewriteWrite ==
    /\ pc = "write"
    /\ projects' = [projects EXCEPT ![Cand.new_dir].entries[Head(jsonl_files)].lines = out_lines]
    /\ out_lines' = <<>>
    /\ pc' = "written"
    /\ UNCHANGED <<call, argv, host, migration, raised, candidates, ci, todo, moved_files,
                   jsonl_files, changed_files, stdout, start, before, past>>

\* main, lines 366-375: the changed file is counted and logged.
RewriteLog ==
    /\ pc = "written"
    /\ changed_files' = changed_files + 1
    /\ migration' = Logged([type |-> "rewrite_cwd", file |-> <<Cand.new_dir, Head(jsonl_files)>>,
                            src |-> Cand.src, dst |-> Cand.dst])
    /\ jsonl_files' = Tail(jsonl_files)
    /\ pc' = "rewrite"
    /\ UNCHANGED <<call, argv, host, projects, raised, candidates, ci, todo, moved_files,
                   out_lines, stdout, start, before, past>>

CanRemoveUnhidden(tree, old_dir) ==
    \A n \in DOMAIN tree[old_dir].entries : IsHidden(n)

\* next(old_dir.iterdir()) raises StopIteration: old_dir has no entry.
CanRemove(tree, old_dir) == DOMAIN tree[old_dir].entries = {}

\* main, lines 376-388: the count of rewritten files is printed; in apply
\* mode old_dir is removed when it has no entry left, unless rmdir raises
\* OSError, which is passed over.
RewriteDone ==
    /\ pc = "rewrite"
    /\ jsonl_files = <<>>
    /\ stdout' = Append(stdout, [line |-> "Rewritten jsonl files", src |-> Cand.src,
                                 n |-> changed_files])
    /\ IF argv.apply /\ CanRemove(projects, Cand.old_dir)
       THEN \/ /\ projects' = Remove(projects, Cand.old_dir)
               /\ pc' = "removed"
               /\ UNCHANGED <<ci, raised>>
            \/ /\ projects' = projects
               /\ AfterCandidate
       ELSE /\ projects' = projects
            /\ AfterCandidate
    /\ UNCHANGED <<call, argv, host, migration, candidates, todo, moved_files, jsonl_files,
                   out_lines, changed_files, start, before, past>>

\* main, lines 385-386: the removal is logged.
RmdirLog ==
    /\ pc = "removed"
    /\ migration' = Logged([type |-> "rmdir_empty_project_dir", dir |-> Cand.old_dir])
    /\ AfterCandidate
    /\ UNCHANGED <<call, argv, host, projects, candidates, todo, moved_files, jsonl_files,
                   out_lines, changed_files, stdout, start, before, past>>

\* archive_symlinks, lines 223-235, in apply mode: each symbolic link of
\* names, in order, is moved into archive_dir without overwriting.
RECURSIVE ArchiveInto(_, _, _, _)
ArchiveInto(tree, names, archive_dir, moved) ==
    IF names = <<>> THEN [tree |-> tree, moved |-> moved]
    ELSE LET name  == Head(names)
             made  == safe_mkdir(tree, archive_dir)
             final == FinalName(DOMAIN made[archive_dir].entries, name)
             put   == [Remove(made, name) EXCEPT
                          ![archive_dir].entries = Put(@, final, made[name])]
         IN  ArchiveInto(put, Tail(names), archive_dir, Append(moved, <<name, final>>))

\* The symbolic links directly under projects_dir that are not hidden.
Symlinks(tree) == SortedSeq({n \in DOMAIN tree : ~IsHidden(n) /\ tree[n].kind = "symlink"})

\* main, lines 390-392: archive_symlinks when the flag is given.
ArchiveSymlinks ==
    /\ pc = "symlinks"
    /\ LET links == Symlinks(projects)
           done  == ArchiveInto(projects, links, ArchiveDirName, <<>>)
       IN  IF argv.apply
           THEN projects' = done.tree /\ moved_files' = done.moved
           ELSE projects' = projects
                /\ moved_files' = [i \in 1..Len(links) |-> <<links[i], links[i]>>]
    /\ pc' = "archived"
    /\ UNCHANGED <<call, argv, host, migration, raised, candidates, ci, todo, jsonl_files,
                   out_lines, changed_files, stdout, start, before, past>>

\* main, lines 393-403: the count is printed, the archiving is logged, and
\* main returns 0.
ArchiveLog ==
    /\ pc = "archived"
    /\ stdout' = Append(stdout, [line |-> "Symlinks archived", src |-> <<>>,
                                 n |-> Len(moved_files)])
    /\ migration' = Logged([type |-> "archive_symlinks", archive_dir |-> ArchiveDirName,
                            moved |-> moved_files])
    /\ pc' = "exit"
    /\ UNCHANGED <<call, argv, host, projects, raised, candidates, ci, todo, moved_files,
                   jsonl_files, out_lines, changed_files, start, before, past>>

NextMain ==
    \/ Start
    \/ BeginCandidate
    \/ MergeEntry
    \/ MergeDone
    \/ RewriteScan
    \/ RewriteWrite
    \/ RewriteLog
    \/ RewriteDone
    \/ RmdirLog
    \/ ArchiveSymlinks
    \/ ArchiveLog

(***************************************************************************)
(* The runs checked                                                        *)
(***************************************************************************)

\* Project paths: "/a/b" lies under "/a"; "/a-b" has "/a" as a string prefix
\* only; "/a/b" and "/a-b" encode to the same directory name.
PathA == <<"/", "a">>
PathAB == <<"/", "a", "/", "b">>
PathA_B == <<"/", "a", "-", "b">>
PathSet == {PathA, PathAB, PathA_B}

MaxMoves == 2
MaxLines == 1

XJsonl == <<"x", ".", "j", "s", "o", "n", "l">>
HiddenName == <<".", "h">>
LinkName == <<"l", "n">>

\* The rows of moves.csv: directory moves between the project paths, at most
\* MaxMoves of them, in increasing order of src.
MainRows ==
    {row \in {[src |-> s, dst |-> d, kind |-> KindDir] : s \in PathSet, d \in PathSet} :
        row.src # row.dst}
MainLedgers ==
    {NoFile} \cup
    {FileOf(rows) : rows \in {r \in StringsUpTo(MainRows, MaxMoves) :
                                 \A i \in 1..(Len(r) - 1) : StrLess(r[i].src, r[i + 1].src)}}

\* The lines a record file under the project directory d may hold: sessions
\* of a project whose path encodes to d.
LinePool(d) ==
    UNION {{Line("obj", p, 1, TRUE, TRUE), Line("split", p, 1, TRUE, TRUE)} :
              p \in {q \in PathSet : eu(q) = d}}
    \cup {Line("nonobj", <<>>, 1, TRUE, TRUE)}

Contents(d) == UNION {[1..k -> LinePool(d)] : k \in 1..MaxLines}

\* What a project directory d may hold: nothing, a record file, a hidden
\* file, or both.
EntryChoices(d) ==
    LET hidden == [n \in {HiddenName} |-> FileNode(<<d, HiddenName>>, <<>>)]
    IN  {NoEntries, hidden}
        \cup UNION {{[n \in {XJsonl} |-> FileNode(<<d, XJsonl>>, c)],
                     Put(hidden, XJsonl, FileNode(<<d, XJsonl>>, c))} : c \in Contents(d)}

DirNames == {eu(p) : p \in PathSet}

\* The stray symbolic links of an archive, at most MaxLinks of them.
MaxLinks == 2
LinkNameOf(i) == IF i = 1 THEN LinkName ELSE <<"l", Digit(i)>>
RECURSIVE WithLinks(_, _)
WithLinks(tree, k) ==
    IF k = 0 THEN tree
    ELSE Put(WithLinks(tree, k - 1), LinkNameOf(k), LinkNode(<<LinkNameOf(k)>>))

\* The archives: any of the project directories, and stray symbolic links.
InitTrees ==
    UNION {
      UNION {
        {WithLinks(tree, k) : k \in 0..MaxLinks}
        : tree \in {t \in [present -> UNION {{DirNode(<<d>>, e) : e \in EntryChoices(d)} : d \in present}] :
                       \A d \in present : t[d].id = <<d>>} }
      : present \in SUBSET DirNames }

\* The host: every project path is a directory, but for at most one.
InitHosts ==
    {[p \in PathSet |-> "dir"]} \cup {[p \in PathSet \ {q} |-> "dir"] : q \in {PathA_B}}

\* The command lines: the moves come from moves.csv, or moves.csv is absent
\* and at most MaxPairs moves come as --pair arguments.
MaxPairs == 1
InitLedgers ==
    {[moves |-> m, pair |-> <<>>] : m \in MainLedgers \ {NoFile}}
    \cup {[moves |-> NoFile, pair |-> [i \in 1..Len(rows) |-> <<rows[i].src, rows[i].dst>>]] :
             rows \in StringsUpTo(MainRows, MaxPairs)}

InitRun ==
    /\ call = NoCall
    /\ \E apply \in BOOLEAN, links \in BOOLEAN, ledger \in InitLedgers :
          argv = [apply |-> apply, archive_project_symlinks |-> links,
                  moves |-> ledger.moves, corrections |-> NoFile, pair |-> ledger.pair]
    /\ host \in InitHosts
    /\ projects \in InitTrees
    /\ start = projects
    /\ past = <<>>
    /\ pc = "main"
    /\ FreshRun

Init == InitRun

Next == NextMain

Spec == Init /\ [][Next]_vars

\* ---- one run after another, on the same ledger --------------------------

MaxRuns == 2

\* The script is started again after a run has ended, in either mode.
NextRun ==
    /\ pc = "exit"
    /\ Len(past) + 1 < MaxRuns
    /\ past' = Append(past, [apply |-> argv.apply, raised |-> raised, stdout |-> stdout])
    /\ \E apply \in BOOLEAN : argv' = [argv EXCEPT !.apply = apply]
    /\ start' = projects
    /\ pc' = "main"
    /\ migration' = NoMigration
    /\ raised' = "none"
    /\ candidates' = <<>>
    /\ ci' = 0
    /\ todo' = <<>>
    /\ moved_files' = <<>>
    /\ jsonl_files' = <<>>
    /\ out_lines' = <<>>
    /\ changed_files' = 0
    /\ stdout' = <<>>
    /\ before' = NoEntries
    /\ UNCHANGED <<call, host, projects>>

NextRerun == NextMain \/ NextRun

SpecRerun == Init /\ [][NextRerun]_vars

\* The mapping and the candidates of main in isolation: moves.csv holds at
\* most MaxOrderRows directory moves in any order, --pair gives at most one
\* more, and every new path exists on the host.
MaxOrderRows == 2
OrderPairs == {<<>>} \cup {<<<<row.src, row.dst>>>> : row \in MainRows}
OrderTrees ==
    UNION {[names -> {DirNode(<<>>, NoEntries)}] : names \in SUBSET {eu(p) : p \in PathSet}}

InitOrder ==
    /\ \E rows \in StringsUpTo(MainRows, MaxOrderRows), pairs \in OrderPairs,
          tree \in OrderTrees :
          call = [fn |-> "main", args |-> <<FileOf(rows), pairs, tree>>,
                  ret |-> <<>>, step |-> 0]
    /\ MainIdle

\* main, lines 268-299: the mapping is loaded and the candidates are listed.
ListCandidates ==
    /\ call.fn = "main" /\ call.step = 0
    /\ call' = [call EXCEPT
                  !.ret = ResolveCandidates(LoadMapping(call.args[1], NoFile, call.args[2]),
                                            call.args[3], [p \in PathSet |-> "dir"]),
                  !.step = 1]
    /\ UNCHANGED mainVars

NextOrder == ListCandidates

SpecOrder == InitOrder /\ [][NextOrder]_vars

\* ---- runs on chained ledgers ---------------------------------------------
\* Three project paths that encode to three directories; moves.csv holds at
\* most MaxChainMoves directory moves between them, so that the new path of
\* one move can be the old path of the next; a project directory holds at
\* most one record file, of a session of its project.
PathB == <<"/", "b">>
PathC == <<"/", "c">>
ChainPaths == {PathA, PathB, PathC}
MaxChainMoves == 2
ChainRows ==
    {row \in {[src |-> s, dst |-> d, kind |-> KindDir] : s \in ChainPaths, d \in ChainPaths} :
        row.src # row.dst}
ChainLedgers ==
    {FileOf(rows) : rows \in {r \in StringsUpTo(ChainRows, MaxChainMoves) :
                                 /\ r # <<>>
                                 /\ \A i \in 1..(Len(r) - 1) : StrLess(r[i].src, r[i + 1].src)}}
ChainEntryChoices(p) ==
    {NoEntries,
     [n \in {XJsonl} |-> FileNode(<<eu(p), XJsonl>>, <<Line("obj", p, 1, TRUE, TRUE)>>)]}
ChainTrees ==
    UNION {
      UNION {
        {WithLinks(tree, k) : k \in 0..1}
        : tree \in {t \in [{eu(p) : p \in present} ->
                             UNION {{DirNode(<<eu(p)>>, e) : e \in ChainEntryChoices(p)} :
                                       p \in present}] :
                       \A d \in DOMAIN t : t[d].id = <<d>>} }
      : present \in SUBSET ChainPaths }

InitChain ==
    /\ call = NoCall
    /\ \E apply \in BOOLEAN, links \in BOOLEAN, moves \in ChainLedgers :
          argv = [apply |-> apply, archive_project_symlinks |-> links,
                  moves |-> moves, corrections |-> NoFile, pair |-> <<>>]
    /\ host = [p \in ChainPaths |-> "dir"]
    /\ projects \in ChainTrees
    /\ start = projects
    /\ past = <<>>
    /\ pc = "main"
    /\ FreshRun

SpecChain == InitChain /\ [][NextMain]_vars

(***************************************************************************)
(* Claims                                                                  *)
(***************************************************************************)

\* The characters of [A-Za-z0-9] among those the strings are drawn from.
AlnumChars == {"a", "Z", "7"}

\* C9: eu is length-preserving, keeps every character of [A-Za-z0-9] at its
\* position and puts "-" in place of every other one, and re-encoding an
\* encoded string gives it back.
C9_EncodeTotal ==
    (call.fn = "eu" /\ call.step >= 1) =>
        \A k \in 1..2 :
            LET s == call.args[k]
                r == call.ret[k]
            IN  /\ Len(r) = Len(s)
                /\ \A i \in 1..Len(s) :
                      /\ s[i] \in AlnumChars => r[i] = s[i]
                      /\ s[i] \notin AlnumChars => r[i] = "-"
                /\ \A i \in 1..Len(r) : r[i] \in AlnumChars \cup {"-"}
                /\ call.step = 2 => call.ret[k + 2] = r

\* Two distinct paths, one with a separator where the other has a hyphen,
\* have been encoded and re-encoded, and they collide.
C9_Witness ==
    /\ call.fn = "eu" /\ call.step = 2
    /\ call.args[1] = <<"/", "a">>
    /\ call.args[2] = <<"-", "a">>
    /\ call.ret[1] = call.ret[2]

\* C6: the rewritten cwd is new when cwd = old, new + s when cwd = old + s
\* with s starting with "/", and cwd itself in every other case.
C6_PrefixExact ==
    (call.fn = "apply_prefix_mapping" /\ call.step = 1) =>
        LET cwd == call.args[1]
            old == call.args[2]
            new == call.args[3]
            rooted == /\ Len(cwd) > Len(old)
                      /\ SubSeq(cwd, 1, Len(old)) = old
                      /\ cwd[Len(old) + 1] = "/"
        IN  /\ cwd = old => call.ret = new
            /\ rooted => call.ret = new \o SubSeq(cwd, Len(old) + 1, Len(cwd))
            /\ (cwd # old /\ ~rooted) => call.ret = cwd

\* A cwd that has old as a string prefix without a separator boundary was
\* mapped (and left alone).
C6_Witness ==
    /\ call.fn = "apply_prefix_mapping" /\ call.step = 1
    /\ call.args = << <<"/", "a", "b">>, <<"/", "a">>, <<"/", "b">> >>
    /\ call.ret = <<"/", "a", "b">>

\* The old path a raw row of a ledger file stands for, and whether the row is
\* a directory move.
C8_Key(row) == RStripSlash(Strip(row.src))
C8_IsDirRow(row) == Strip(row.kind) = KindDir /\ Strip(row.dst) # <<>> /\ Strip(row.src) # <<>>
C8_DirRows(file, k) ==
    IF file.exists
    THEN {i \in 1..Len(file.rows) : C8_IsDirRow(file.rows[i]) /\ C8_Key(file.rows[i]) = k}
    ELSE {}
C8_PairRows(pairs, k) == {i \in 1..Len(pairs) : RStripSlash(pairs[i][1]) = k}
C8_Last(S) == CHOOSE i \in S : \A j \in S : j <= i

\* C8: an old path maps to the new path of its last manual pair if it has
\* one, otherwise of its last directory row in the correction ledger if it has
\* one, otherwise of its last directory row in the base ledger.
C8_LedgerPrecedence ==
    (call.fn = "load_mapping" /\ call.step = 1) =>
        LET movesFile == call.args[1]
            corrFile  == call.args[2]
            pairs     == call.args[3]
            keys == {C8_Key(r) : r \in LedgerRows} \cup {RStripSlash(p[1]) : p \in PairArgs}
        IN  \A k \in keys :
               LET inBase == C8_DirRows(movesFile, k)
                   inCorr == C8_DirRows(corrFile, k)
                   inPair == C8_PairRows(pairs, k)
               IN  IF inPair # {}
                   THEN k \in DOMAIN call.ret
                        /\ call.ret[k] = RStripSlash(pairs[C8_Last(inPair)][2])
                   ELSE IF inCorr # {}
                   THEN k \in DOMAIN call.ret
                        /\ call.ret[k] = RStripSlash(Strip(corrFile.rows[C8_Last(inCorr)].dst))
                   ELSE IF inBase # {}
                   THEN k \in DOMAIN call.ret
                        /\ call.ret[k] = RStripSlash(Strip(movesFile.rows[C8_Last(inBase)].dst))
                   ELSE k \notin DOMAIN call.ret

\* The old path "/a" has two directory rows in the base ledger, one in the
\* correction ledger and a manual pair, and the mapping has been built.
C8_Witness ==
    /\ call.fn = "load_mapping" /\ call.step = 1
    /\ Cardinality(C8_DirRows(call.args[1], <<"/", "a">>)) = 2
    /\ C8_DirRows(call.args[2], <<"/", "a">>) # {}
    /\ C8_PairRows(call.args[3], <<"/", "a">>) # {}
    /\ call.ret[<<"/", "a">>] = <<"/", "r">>

\* C7: a mapping becomes a candidate if and only if its encoded old directory
\* is a directory of the archive and its new path exists on the host as a
\* directory; the candidate has new_dir = eu(new path).
C7_CandidateFiltering ==
    (call.fn = "candidates" /\ call.step = 1) =>
        LET mapping == call.args[1]
            tree    == call.args[2]
            hostfs  == call.args[3]
        IN  /\ \A src \in DOMAIN mapping :
                  (\E i \in 1..Len(call.ret) :
                      call.ret[i].src = src /\ call.ret[i].dst = mapping[src])
                  <=> (/\ IsDir(tree, eu(src))
                       /\ mapping[src] \in DOMAIN hostfs
                       /\ hostfs[mapping[src]] = "dir")
            /\ \A i \in 1..Len(call.ret) :
                  /\ call.ret[i].src \in DOMAIN mapping
                  /\ call.ret[i].old_dir = eu(call.ret[i].src)
                  /\ call.ret[i].new_dir = eu(call.ret[i].dst)

\* C3 as stated: after two rewrites of a file with one backup root there is
\* exactly one backup of the file, and it holds the lines the file had
\* before the first rewrite.
C3_ExactlyOneBackup ==
    (call.fn = "rewrite_jsonl_cwds" /\ call.step = MaxRewrites /\ ~call.args[3]) =>
        /\ DOMAIN call.ret.backups = {RewriteRel}
        /\ call.ret.backups[RewriteRel].lines = call.args[1]

\* C3: after any number of rewrites of a file with one backup root there is
\* at most one backup of the file; there is one exactly when a rewrite has
\* changed the file, and it holds the lines the file had before the first
\* rewrite, so that no later rewrite has replaced it.
C3_BackupWriteOnce ==
    (call.fn = "rewrite_jsonl_cwds" /\ ~call.args[3]) =>
        /\ DOMAIN call.ret.backups \subseteq {RewriteRel}
        /\ (RewriteRel \in DOMAIN call.ret.backups)
              <=> (\E k \in 1..Len(call.ret.returned) : call.ret.returned[k] = "True")
        /\ RewriteRel \in DOMAIN call.ret.backups =>
              call.ret.backups[RewriteRel].lines = call.args[1]

\* Two rewrites have each changed the file, and the one backup holds the
\* lines of before the first.
C3_Witness ==
    /\ call.fn = "rewrite_jsonl_cwds" /\ call.step = MaxRewrites /\ ~call.args[3]
    /\ call.ret.returned = <<"True", "True">>
    /\ call.ret.file.lines # call.args[1]
    /\ call.ret.backups[RewriteRel].lines = call.args[1]

\* The record files of a tree, as <<directory, name>>.
RecordFiles(tree) ==
    UNION {{<<d, n>> : n \in {m \in DOMAIN tree[d].entries :
                                 tree[d].entries[m].kind = "file" /\ EndsWith(m, DotJsonl)}} :
              d \in {e \in DOMAIN tree : tree[e].kind = "dir"}}

\* The lines the record file with this id had when the run started.
LinesAtStart(id) ==
    LET pl == CHOOSE q \in RecordFiles(start) : start[q[1]].entries[q[2]].id = id
    IN  start[pl[1]].entries[pl[2]].lines

\* The entries a directory of a tree holds (none when it does not exist).
EntriesOf(tree, d) == IF IsDir(tree, d) THEN tree[d].entries ELSE NoEntries

\* C1: when the merge of a candidate has ended in apply mode, every name
\* new_dir held before the merge is still there with the entry it named, and
\* the entry of old_dir of that name is in new_dir under a conflict name.
C1_MergeNeverOverwrites ==
    (pc = "merge" /\ todo = <<>> /\ argv.apply) =>
        LET was == EntriesOf(before, Cand.new_dir)
            old == EntriesOf(before, Cand.old_dir)
            now == EntriesOf(projects, Cand.new_dir)
        IN  \A name \in DOMAIN was :
               /\ name \in DOMAIN now
               /\ now[name] = was[name]
               /\ (name \in DOMAIN old /\ ~IsHidden(name)) =>
                     \E i \in 1..9 : /\ ConflictName(name, i) \in DOMAIN now
                                     /\ now[ConflictName(name, i)] = old[name]

\* C2: in an apply run, every record file whose lines differ from those it
\* had when the run started has, under the backup root and at a path the
\* file has had, a backup of it holding the lines it had when the run started.
C2_BackupPrecedesMutation ==
    (pc \notin {"idle", "main"} /\ argv.apply) =>
        \A pl \in RecordFiles(projects) :
            LET node == projects[pl[1]].entries[pl[2]]
            IN  node.lines # LinesAtStart(node.id) =>
                    \E rel \in DOMAIN migration.backups :
                        /\ migration.backups[rel].of = node.id
                        /\ migration.backups[rel].lines = LinesAtStart(node.id)

\* C4: at every point of a run without --apply the archive is what it was
\* when the run started, and there is no run directory: no backup, no copy
\* of a ledger, no audit log.
C4_DryRunNoSideEffects ==
    (pc # "idle" /\ ~argv.apply) => (projects = start /\ migration = NoMigration)

\* A dry-run with the symlink flag has ended after it reported a candidate
\* with an entry to move.
C4_Witness ==
    /\ pc = "exit" /\ ~argv.apply /\ raised = "none"
    /\ argv.archive_project_symlinks
    /\ \E i \in 1..Len(stdout) : stdout[i].line = "Moved entries" /\ stdout[i].n > 0
    /\ \E i \in 1..Len(stdout) : stdout[i].line = "Symlinks archived" /\ stdout[i].n > 0

\* C5: when a dry-run and then an apply run of the same command line have
\* both returned, they have printed the same counts for every candidate.
C5_DryRunCountsMatchApply ==
    (/\ pc = "exit" /\ raised = "none" /\ argv.apply
     /\ Len(past) = 1 /\ ~past[1].apply /\ past[1].raised = "none")
        => stdout = past[1].stdout

\* The cwd a line of a record file must carry after the migration old -> new.
C10_Expected(cwd, old, new) ==
    IF cwd = old THEN new
    ELSE IF Len(cwd) > Len(old) /\ SubSeq(cwd, 1, Len(old)) = old /\ cwd[Len(old) + 1] = "/"
    THEN new \o SubSeq(cwd, Len(old) + 1, Len(cwd))
    ELSE cwd

\* C10: when an apply run with a single candidate whose new_dir was absent or
\* had none of the names of old_dir has returned, every record file of
\* old_dir is in new_dir under its name, each of its lines that is a JSON
\* object carries the new-rooted cwd where it carried an old-rooted one and
\* its other fields as they were, and the backup root holds the original
\* lines of every file so changed.
C10_EndToEnd ==
    (/\ pc = "exit" /\ raised = "none" /\ argv.apply /\ Len(candidates) = 1
     /\ \A n \in DOMAIN EntriesOf(start, candidates[1].new_dir) :
           IsHidden(n) \/ n \notin DOMAIN start[candidates[1].old_dir].entries)
        => LET c   == candidates[1]
               now == EntriesOf(projects, c.new_dir)
           IN  \A pl \in {q \in RecordFiles(start) : q[1] = c.old_dir /\ ~IsHidden(q[2])} :
                  LET orig == start[pl[1]].entries[pl[2]]
                  IN  /\ pl[2] \in DOMAIN now
                      /\ now[pl[2]].id = orig.id
                      /\ Len(now[pl[2]].lines) = Len(orig.lines)
                      /\ \A i \in 1..Len(orig.lines) :
                            /\ now[pl[2]].lines[i].rest = orig.lines[i].rest
                            /\ orig.lines[i].kind \in {"obj", "split"} =>
                                  now[pl[2]].lines[i].cwd =
                                      C10_Expected(orig.lines[i].cwd, c.src, c.dst)
                      /\ now[pl[2]].lines # orig.lines =>
                            /\ <<c.new_dir, pl[2]>> \in DOMAIN migration.backups
                            /\ migration.backups[<<c.new_dir, pl[2]>>].lines = orig.lines

\* The pre-flight condition of main: moves.csv is absent and no --pair is given.
NoUsableInput == ~argv.moves.exists /\ argv.pair = <<>>

\* C11: a run without usable input ends with a non-zero exit status and has
\* changed nothing; every other run ends with exit status 0.
C11_PreflightAndExitStatus ==
    pc = "exit" =>
        IF NoUsableInput
        THEN ExitStatus # 0 /\ projects = start /\ migration = NoMigration
        ELSE ExitStatus = 0

\* C12: when the processing of a candidate has failed, the run has gone on to
\* every later candidate: a run that ended on a failure ended in the last
\* candidate of the list.
C12_FailuresNeverAbortBatch ==
    (pc = "exit" /\ raised \notin {"none", "SystemExit"}) => ci = Len(candidates)

\* C13: a rewrite of a file never raises; it leaves every line that is no
\* JSON object as it was, or as it reads, and gives every object line its
\* mapped cwd.
C13_MalformedLineTolerance ==
    (call.fn = "rewrite_jsonl_cwds" /\ call.step = 1 /\ ~call.args[3]) =>
        LET lines == call.args[1]
            pair  == call.args[2][1]
            out   == call.ret.file.lines
        IN  /\ call.ret.returned[1] # "AttributeError"
            /\ Len(out) = Len(lines)
            /\ \A i \in 1..Len(lines) :
                  IF lines[i].kind = "obj"
                  THEN out[i].cwd = apply_prefix_mapping(lines[i].cwd, pair[1], pair[2])
                  ELSE out[i] \in {lines[i], read_text(lines)[i]}

\* A cwd is the path old or lies under it.
RootedAt(cwd, old) == cwd = old \/ StartsWith(cwd, old \o <<"/">>)

\* C14: when no line of the file has a cwd equal to or rooted at the old path,
\* the rewrite returns False (so that its caller logs nothing), the file keeps
\* its lines and no backup is made, in apply mode as in dry-run.
C14_NoOpOnUnchangedFiles ==
    (/\ call.fn = "rewrite_jsonl_cwds" /\ call.step = 1
     /\ \A i \in 1..Len(call.args[1]) :
           call.args[1][i].kind = "obj" => ~RootedAt(call.args[1][i].cwd, call.args[2][1][1]))
        => /\ call.ret.returned[1] = "False"
           /\ call.ret.file.lines = call.args[1]
           /\ call.ret.backups = NoEntries

\* The record files of a tree with their lines.
RecordContent(tree) ==
    [pl \in RecordFiles(tree) |-> tree[pl[1]].entries[pl[2]].lines]

\* C15: when an apply run and then a second apply run on the same ledger have
\* both returned, the record files have the names and the lines they had
\* after the first (stated for the runs no candidate of which has its
\* old_dir as new_dir).
C15_RerunIdempotent ==
    (/\ pc = "exit" /\ raised = "none" /\ argv.apply
     /\ Len(past) = 1 /\ past[1].apply /\ past[1].raised = "none"
     /\ \A i \in 1..Len(candidates) : candidates[i].old_dir # candidates[i].new_dir)
        => RecordContent(projects) = RecordContent(start)

\* The entries of the audit log of a type.
LogOfType(t) == SelectSeq(migration.log, LAMBDA e : e.type = t)

\* The symbolic links the run has moved away from under projects_dir.
ArchivedLinks == {n \in DOMAIN start : start[n].kind = "symlink" /\ n \notin DOMAIN projects}

\* The record files whose lines are not those they had when the run started.
ChangedFiles ==
    {pl \in RecordFiles(projects) :
        LET node == projects[pl[1]].entries[pl[2]]
        IN  node.lines # LinesAtStart(node.id)}

\* The project directories the run has removed.
RemovedDirs == {d \in DOMAIN start : start[d].kind = "dir" /\ d \notin DOMAIN projects}

RECURSIVE RewrittenPrinted(_)
RewrittenPrinted(out) ==
    IF out = <<>> THEN 0
    ELSE (IF Head(out).line = "Rewritten jsonl files" THEN Head(out).n ELSE 0)
         + RewrittenPrinted(Tail(out))

C17_SymlinkArchiving ==
    /\ (pc # "idle" /\ ~argv.archive_project_symlinks) =>
          \A n \in DOMAIN start :
              start[n].kind = "symlink" => (n \in DOMAIN projects /\ projects[n] = start[n])
    /\ (pc = "exit" /\ raised = "none" /\ argv.apply /\ argv.archive_project_symlinks) =>
          \A n \in DOMAIN start :
              (start[n].kind = "symlink" /\ ~IsHidden(n)) =>
                  /\ n \notin DOMAIN projects
                  /\ IsDir(projects, ArchiveDirName)
                  /\ \E m \in DOMAIN projects[ArchiveDirName].entries :
                        projects[ArchiveDirName].entries[m] = start[n]

\* C18: while the record files of a candidate are rewritten, every entry that
\* new_dir held before the merge of the candidate is as it was (stated for
\* the candidates whose old_dir is not their new_dir).
C18_RewriteScope ==
    (pc \in {"rewrite", "write", "written"} /\ argv.apply) =>
        (Cand.old_dir # Cand.new_dir =>
            LET was == EntriesOf(before, Cand.new_dir)
                now == EntriesOf(projects, Cand.new_dir)
            IN  \A name \in DOMAIN was : name \in DOMAIN now /\ now[name] = was[name])

\* The old paths in the order in which the ledger sources give them: the
\* rows of moves.csv, then the --pair arguments.
C19_Sources ==
    [i \in 1..Len(call.args[1].rows) |-> call.args[1].rows[i].src]
    \o [i \in 1..Len(call.args[2]) |-> call.args[2][i][1]]
C19_FirstAt(src) ==
    CHOOSE i \in 1..Len(C19_Sources) :
        C19_Sources[i] = src /\ \A j \in 1..(i - 1) : C19_Sources[j] # src

\* C19: the candidates are listed in the order in which their old paths
\* appear in the ledger sources.
C19_LedgerOrder ==
    (call.fn = "main" /\ call.step = 1) =>
        \A i \in 1..Len(call.ret) : \A j \in (i + 1)..Len(call.ret) :
            C19_FirstAt(call.ret[i].src) < C19_FirstAt(call.ret[j].src)

\* The counter of the conflict name the entry must get: the smallest one
\* whose conflict name is not taken.
C20_Counter(t) == IF t.hole \in 1..t.upto THEN t.hole ELSE t.upto + 1

\* C20: the entry keeps its name when the name is free; when it is taken the
\* entry gets the conflict name of the smallest counter from 1 that is free,
\* its stem, ".conflict", four digits and its suffix; the move fails only
\* when the name and the conflict names of all the counters 1..9999 are
\* taken, and then the entry is still in its directory. Whatever happens, no
\* entry of the destination directory is lost or altered.
C20_ConflictNaming ==
    (call.fn = "move_file_no_overwrite" /\ call.step = 1) =>
        LET name == call.args[1]
            t    == call.args[2]
            n    == C20_Counter(t)
            want == IF ~t.target THEN name
                    ELSE Stem(name) \o <<".", "c", "o", "n", "f", "l", "i", "c", "t">>
                         \o <<Digit(n \div 1000), Digit((n \div 100) % 10),
                              Digit((n \div 10) % 10), Digit(n % 10)>>
                         \o Suffix(name)
        IN  IF t.target /\ n > 9999
            THEN /\ call.ret.raised = "RuntimeError"
                 /\ call.ret.src_left = {name}
                 /\ call.ret.dst = "same"
            ELSE /\ call.ret.raised = "none"
                 /\ call.ret.final = want
                 /\ call.ret.src_left = {}
                 /\ call.ret.dst = "grown"

\* The name x.jsonl and its conflict names of all the counters but 2 were
\* taken: the entry is x.conflict0002.jsonl.
C20_Witness ==
    /\ call.fn = "move_file_no_overwrite" /\ call.step = 1
    /\ call.args[1] = <<"x", ".", "j", "s", "o", "n", "l">>
    /\ call.args[2].target /\ call.args[2].upto = 9999 /\ call.args[2].hole = 2
    /\ call.ret.final = <<"x", ".", "c", "o", "n", "f", "l", "i", "c", "t",
                          "0", "0", "0", "2", ".", "j", "s", "o", "n", "l">>
    /\ call.ret.dst = "grown"

\* The step of main from the end of the rewrite loop of a candidate to what
\* follows its cleanup.
C21_CleanupStep == pc = "rewrite" /\ jsonl_files = <<>> /\ stdout' # stdout

\* C21: the cleanup of a candidate removes nothing but old_dir, and removes
\* it only in apply mode and only when it has no entry (a hidden one
\* included); the step neither ends the run nor appends to the log, whether
\* the removal is made, fails or is not tried; and an
\* rmdir_empty_project_dir entry is appended only by the step that follows a
\* removal, when old_dir is gone.
C21_BestEffortCleanup ==
    [][/\ C21_CleanupStep =>
             /\ projects' \in {projects, Remove(projects, Cand.old_dir)}
             /\ (projects' # projects =>
                   (argv.apply /\ DOMAIN projects[Cand.old_dir].entries = {} /\ pc' = "removed"))
             /\ (pc' = "removed" => projects' # projects)
             /\ migration' = migration
             /\ raised' = raised
             /\ pc' # "exit" \/ ci = Len(candidates)
       /\ Len(SelectSeq(migration'.log, LAMBDA e : e.type = "rmdir_empty_project_dir"))
              > Len(LogOfType("rmdir_empty_project_dir")) =>
             /\ pc = "removed"
             /\ Cand.old_dir \notin DOMAIN projects
             /\ migration'.log = Append(migration.log,
                                        [type |-> "rmdir_empty_project_dir", dir |-> Cand.old_dir])
      ]_vars

\* An apply run of two candidates has returned: the old_dir of the first was
\* removed and logged; the removal of the old_dir of the second, left with no
\* entry, failed and the log has no entry for it.
C21_Witness ==
    /\ pc = "exit" /\ raised = "none" /\ argv.apply /\ Len(candidates) = 2
    /\ LogOfType("rmdir_empty_project_dir")
          = <<[type |-> "rmdir_empty_project_dir", dir |-> candidates[1].old_dir]>>
    /\ candidates[2].old_dir # candidates[1].old_dir
    /\ IsDir(projects, candidates[2].old_dir)
    /\ projects[candidates[2].old_dir].entries = NoEntries

\* The entry is, in the archive the run started on, in this directory under
\* this name: nothing has moved it since.
C22_AtStart(d, n, node) ==
    /\ IsDir(start, d)
    /\ n \in DOMAIN start[d].entries
    /\ start[d].entries[n].id = node.id

\* C22: in an apply run every move takes an entry from the place it had when
\* the run started (no entry is moved twice), every write replaces the lines
\* the record file had when the run started (no file is rewritten twice), a
\* backup is made only of a file no backup holds yet (no file is backed up
\* twice), and a directory is removed only when the log has no removal of it
\* (no directory is removed twice).
C22_OneMutationPerEntity ==
    [][argv.apply =>
         /\ (pc = "merge" /\ todo # <<>> /\ moved_files' # moved_files) =>
               C22_AtStart(Cand.old_dir, Head(todo), projects[Cand.old_dir].entries[Head(todo)])
         /\ pc = "write" =>
               LET node == projects[Cand.new_dir].entries[Head(jsonl_files)]
               IN  node.lines = LinesAtStart(node.id)
         /\ (pc = "rewrite" /\ migration'.backups # migration.backups) =>
               LET node == projects[Cand.new_dir].entries[Head(jsonl_files)]
               IN  \A rel \in DOMAIN migration.backups : migration.backups[rel].of # node.id
         /\ (pc = "rewrite" /\ pc' = "removed") =>
               \A i \in 1..Len(migration.log) :
                  migration.log[i].type = "rmdir_empty_project_dir" =>
                     migration.log[i].dir # Cand.old_dir
      ]_vars

\* The lines the record file with this id had when the candidate was begun.
C23_LinesBefore(id) ==
    LET pl == CHOOSE q \in RecordFiles(before) : before[q[1]].entries[q[2]].id = id
    IN  before[pl[1]].entries[pl[2]].lines

\* What the archive must look like when the entry e is appended to the log.
C23_Completed(e) ==
    CASE e.type = "project_dir_merge" ->
           /\ pc = "merge" /\ todo = <<>>
           /\ {e.moved[k][1] : k \in 1..Len(e.moved)}
                 = {n \in DOMAIN EntriesOf(before, e.old_dir) : ~IsHidden(n)}
           /\ \A k \in 1..Len(e.moved) :
                 LET name  == e.moved[k][1]
                     final == e.moved[k][2]
                 IN  /\ final \in DOMAIN projects[e.new_dir].entries
                     /\ projects[e.new_dir].entries[final].id = before[e.old_dir].entries[name].id
                     /\ e.old_dir # e.new_dir => name \notin DOMAIN projects[e.old_dir].entries
      [] e.type = "rewrite_cwd" ->
           /\ pc = "written"
           /\ e.file \in DOMAIN migration.backups
           /\ LET node == projects[e.file[1]].entries[e.file[2]]
                  r    == Rewrite(C23_LinesBefore(node.id), e.src, e.dst)
              IN  r.changed /\ node.lines = r.out
      [] e.type = "rmdir_empty_project_dir" ->
           /\ pc = "removed"
           /\ e.dir \notin DOMAIN projects
      [] e.type = "archive_symlinks" ->
           /\ pc = "archived"
           /\ Symlinks(projects) = <<>>
           /\ \A k \in 1..Len(e.moved) :
                 /\ e.moved[k][1] \notin DOMAIN projects
                 /\ e.moved[k][2] \in DOMAIN projects[e.archive_dir].entries
                 /\ projects[e.archive_dir].entries[e.moved[k][2]].kind = "symlink"
      [] OTHER -> FALSE

\* C23: the log changes only by one entry appended at its end, and when an
\* entry is appended the action it describes is complete in the archive:
\* every entry of the candidate's old_dir that is not hidden is in new_dir
\* under the name the log gives, and no longer in old_dir; the record file has a backup and holds the
\* rewritten lines; the directory is gone; the symbolic links are in the
\* archive folder. So the log of a run cut short at any state describes
\* finished actions only.
C23_AuditFollowsAction ==
    [][migration'.log # migration.log =>
          LET e == migration'.log[Len(migration'.log)]
          IN  /\ migration'.log = Append(migration.log, e)
              /\ projects' = projects
              /\ C23_Completed(e)
      ]_vars

\* An apply run has returned with the four kinds of entry in its log, the
\* merge having moved an entry and the archiving a symbolic link.
C23_Witness ==
    /\ pc = "exit" /\ raised = "none" /\ argv.apply
    /\ \E i \in 1..Len(migration.log) :
          migration.log[i].type = "project_dir_merge" /\ migration.log[i].moved # <<>>
    /\ \E i \in 1..Len(migration.log) : migration.log[i].type = "rewrite_cwd"
    /\ \E i \in 1..Len(migration.log) : migration.log[i].type = "rmdir_empty_project_dir"
    /\ \E i \in 1..Len(migration.log) :
          migration.log[i].type = "archive_symlinks" /\ Len(migration.log[i].moved) = 1

\* C24: when a rewrite has written the file, the file has as many lines as
\* before, in the same order; every line that is no JSON object, or whose
\* cwd is neither the old path nor under it, is what it was, byte for byte;
\* and every other line is a JSON object with the mapped cwd and the other
\* keys and values it had.
C24_LineStructurePreserved ==
    (/\ call.fn = "rewrite_jsonl_cwds" /\ call.step = 1
     /\ call.ret.returned[1] = "True" /\ ~call.args[3]) =>
        LET lines == call.args[1]
            pair  == call.args[2][1]
            out   == call.ret.file.lines
        IN  /\ Len(out) = Len(lines)
            /\ \A i \in 1..Len(lines) :
                  IF lines[i].kind = "obj" /\ RootedAt(lines[i].cwd, pair[1])
                  THEN /\ out[i].kind = "obj"
                       /\ out[i].rest = lines[i].rest
                       /\ out[i].eol = lines[i].eol
                       /\ out[i].cwd = apply_prefix_mapping(lines[i].cwd, pair[1], pair[2])
                  ELSE out[i] = lines[i]

\* The places (directory, name) of the entries of the project directories;
\* the hidden folder of the archived symbolic links is none of them.
C25_Places(tree) ==
    UNION {{<<d, n>> : n \in DOMAIN tree[d].entries} :
              d \in {e \in DOMAIN tree : tree[e].kind = "dir" /\ ~IsHidden(e)}}

\* m is f"{stem}.conflict{i:04d}{suffix}" of the name n for some counter.
C25_IsConflictOf(m, n) ==
    LET k == Len(Stem(n))
    IN  /\ Len(m) = Len(n) + 13
        /\ SubSeq(m, 1, k) = Stem(n)
        /\ SubSeq(m, k + 1, k + 9) = <<".", "c", "o", "n", "f", "l", "i", "c", "t">>
        /\ \A j \in (k + 10)..(k + 13) : m[j] \in {Digit(i) : i \in 0..9}
        /\ SubSeq(m, k + 14, Len(m)) = Suffix(n)

\* The directories the candidates name.
C25_CandidateDirs ==
    UNION {{candidates[i].old_dir, candidates[i].new_dir} : i \in 1..Len(candidates)}

\* C25: in every state of an apply run, every entry that is not hidden and
\* was in the old_dir or the new_dir of a candidate when the run started is
\* at exactly one place of the archive, in the old_dir or the new_dir of a
\* candidate that names the directory it was in, under its name or a
\* conflict name of it; and the project directories hold the entries they
\* held at the start, each once.
C25_NoEntryLost ==
    (argv.apply /\ pc # "main") =>
        /\ \A from \in {pl \in C25_Places(start) :
                           pl[1] \in C25_CandidateDirs /\ ~IsHidden(pl[2])} :
              LET at == {pl \in C25_Places(projects) :
                            projects[pl[1]].entries[pl[2]].id
                               = start[from[1]].entries[from[2]].id}
              IN  /\ Cardinality(at) = 1
                  /\ \A pl \in at :
                        /\ \E i \in 1..Len(candidates) :
                              /\ from[1] \in {candidates[i].old_dir, candidates[i].new_dir}
                              /\ pl[1] \in {candidates[i].old_dir, candidates[i].new_dir}
                        /\ pl[2] = from[2] \/ C25_IsConflictOf(pl[2], from[2])
        /\ Cardinality(C25_Places(projects)) = Cardinality(C25_Places(start))
        /\ {projects[pl[1]].entries[pl[2]].id : pl \in C25_Places(projects)}
              = {start[pl[1]].entries[pl[2]].id : pl \in C25_Places(start)}

\* C26: every move of the merge in apply mode gives the entry its own name
\* in new_dir, unless that name is held in new_dir, when the entry is moved,
\* by another entry; so with old_dir = new_dir, where the name is held by
\* the entry itself, nothing is renamed.
C26_NamesKept ==
    [][(argv.apply /\ pc = "merge" /\ moved_files' # moved_files) =>
          LET name  == Head(todo)
              final == moved_files'[Len(moved_files')][2]
              node  == projects[Cand.old_dir].entries[name]
              held  == EntriesOf(projects, Cand.new_dir)
          IN  /\ projects'[Cand.new_dir].entries[final] = node
              /\ \/ final = name
                 \/ name \in DOMAIN held /\ held[name].id # node.id
      ]_vars

\* C27: when the run is about to merge a candidate (new_dir made, in apply
\* mode; old_dir not yet listed), the candidate's old_dir is a directory of
\* the archive.
C27_CandidatesStayValid ==
    pc = "candidate" =>
        IsDir(IF argv.apply /\ ~MkdirRaises(projects, Cand.new_dir)
              THEN safe_mkdir(projects, Cand.new_dir)
              ELSE projects,
              Cand.old_dir)

====
